---------------------------- MODULE Spec2Model ----------------------------
(***************************************************************************)
(* A model of the Indonesia stock analysis scripts:                        *)
(*   indonesia_stock_analysis.py  fetch_stock_data, calculate_metrics,     *)
(*                                predict_stocks, main                     *)
(*   stock_analysis.py            the 7-business-day forecast script       *)
(*                                                                         *)
(* Numbers.  The scripts compute in IEEE double precision (numpy/pandas).  *)
(* Here a number is an exact extended rational [n |-> .., d |-> ..] with   *)
(* d >= 0 and gcd(n, d) = 1:  d > 0 is the finite value n/d, 1/0 is +inf,  *)
(* -1/0 is -inf and 0/0 is NaN.  The arithmetic follows the IEEE rules for *)
(* NaN and the infinities; rounding is not modelled, and the sign of a     *)
(* zero divisor is taken as positive (it changes none of the results the   *)
(* scripts derive: x/0 only occurs as 0/0 or inside 100 - 100/(1 + x/0)).  *)
(***************************************************************************)
EXTENDS Integers, Sequences, FiniteSets, TLC

VARIABLES
    pc,             \* position of the running script / call
    i,              \* fetch_stock_data: index of the next symbol of the loop
    stock_data,     \* dict symbol -> DataFrame, as a sequence in insertion order
    metrics,        \* dict symbol -> metric record, in insertion order
    top_n,          \* predict_stocks: the top_n argument
    scores,         \* predict_stocks: per symbol, the sub-scores and the score
    predictions,    \* predict_stocks: the returned list of (symbol, score)
    output,         \* what was printed, as a sequence of message records
    plotted,        \* create_analysis_plots has been invoked
    hist_len,       \* stock_analysis.py: number of rows of data
    hist_last,      \* stock_analysis.py: data.index[-1], as a day number
    forecast,       \* stock_analysis.py: fit.forecast(7)
    future_dates    \* stock_analysis.py: the date_range the forecast is plotted on

vars == <<pc, i, stock_data, metrics, top_n, scores, predictions, output,
          plotted, hist_len, hist_last, forecast, future_dates>>

mainVars == <<pc, i, stock_data, metrics, top_n, scores, predictions, output, plotted>>
forecastVars == <<hist_len, hist_last, forecast, future_dates>>

----------------------------------------------------------------------------
(* Bounds of the model *)

MaxBars == 51          \* longest DataFrame drawn for calculate_metrics
MaxSymbols == 3        \* symbols of the universe that main analyses
MaxScored == 3         \* longest metrics mapping drawn for predict_stocks
MaxTopN == 4           \* largest top_n drawn for predict_stocks
MaxRanked == 7         \* longest metrics mapping drawn for the sort of predict_stocks
MaxDay == 20           \* latest day number of the last historical bar
MaxHist == 12          \* most rows of the downloaded history

(* Program constants *)

MinBars == 5           \* calculate_metrics: len(data) < 5 is skipped
ChangeWindow == 30     \* calculate_metrics: iloc[-30]
RecentWindow == 5      \* calculate_metrics: tail(5)
SMA20Window == 20
SMA50Window == 50
RSIWindow == 14
RSINeutral == 50
ScoreCap == 10
DefaultTopN == 5       \* main: predict_stocks(metrics, top_n=5)
Horizon == 7           \* stock_analysis.py: forecast(7), periods=7

----------------------------------------------------------------------------
(* Extended rational arithmetic *)

RECURSIVE GCD(_, _)
GCD(a, b) == IF b = 0 THEN a ELSE GCD(b, a % b)

AbsInt(x) == IF x < 0 THEN -x ELSE x
SignInt(x) == IF x < 0 THEN -1 ELSE 1

\* the finite number n/d, d > 0, in lowest terms
Flt(n, d) ==
    LET g == GCD(AbsInt(n), d)
    IN  [n |-> n \div g, d |-> d \div g]

Num(k) == [n |-> k, d |-> 1]
NaN == [n |-> 0, d |-> 0]
Inf(s) == [n |-> s, d |-> 0]

IsNaN(x) == x.d = 0 /\ x.n = 0
IsInf(x) == x.d = 0 /\ x.n # 0
IsFinite(x) == x.d > 0

FNeg(a) == [n |-> -a.n, d |-> a.d]

FAbs(a) == [n |-> AbsInt(a.n), d |-> a.d]

FAdd(a, b) ==
    IF IsNaN(a) \/ IsNaN(b) THEN NaN
    ELSE IF IsInf(a) /\ IsInf(b) THEN (IF a.n = b.n THEN a ELSE NaN)
    ELSE IF IsInf(a) THEN a
    ELSE IF IsInf(b) THEN b
    ELSE Flt(a.n * b.d + b.n * a.d, a.d * b.d)

FSub(a, b) == FAdd(a, FNeg(b))

FMul(a, b) ==
    IF IsNaN(a) \/ IsNaN(b) THEN NaN
    ELSE IF IsInf(a) \/ IsInf(b)
         THEN (IF a.n = 0 \/ b.n = 0 THEN NaN ELSE Inf(SignInt(a.n) * SignInt(b.n)))
    ELSE Flt(a.n * b.n, a.d * b.d)

FDiv(a, b) ==
    IF IsNaN(a) \/ IsNaN(b) THEN NaN
    ELSE IF IsInf(a) THEN (IF IsInf(b) THEN NaN ELSE Inf(SignInt(a.n) * SignInt(b.n)))
    ELSE IF IsInf(b) THEN Num(0)
    ELSE IF b.n = 0 THEN (IF a.n = 0 THEN NaN ELSE Inf(SignInt(a.n)))
    ELSE Flt(a.n * b.d * SignInt(b.n), a.d * AbsInt(b.n))

\* a < b as the interpreter evaluates it: FALSE whenever a NaN is involved
FLt(a, b) ==
    IF IsNaN(a) \/ IsNaN(b) THEN FALSE
    ELSE IF IsInf(a) THEN a.n < 0 /\ ~(IsInf(b) /\ b.n < 0)
    ELSE IF IsInf(b) THEN b.n > 0
    ELSE a.n * b.d < b.n * a.d

\* the builtins min(a, b) and max(a, b): the first argument is kept unless the
\* second one compares strictly smaller (larger)
PyMin(a, b) == IF FLt(b, a) THEN b ELSE a
PyMax(a, b) == IF FLt(a, b) THEN b ELSE a

\* ((new - old) / old) * 100
PctOf(new, old) == FMul(FDiv(FSub(new, old), old), Num(100))

----------------------------------------------------------------------------
(* DataFrames: a sequence of bars [Close |-> .., Volume |-> ..], oldest first *)

RECURSIVE SumClose(_, _, _)
SumClose(data, lo, hi) ==
    IF lo > hi THEN 0 ELSE data[hi].Close + SumClose(data, lo, hi - 1)

RECURSIVE SumVolume(_, _, _)
SumVolume(data, lo, hi) ==
    IF lo > hi THEN 0 ELSE data[hi].Volume + SumVolume(data, lo, hi - 1)

\* data['Close'].iloc[-k]
CloseFromEnd(data, k) == data[Len(data) - k + 1].Close

\* delta = data['Close'].diff(): NaN on the first row
Delta(data, j) == IF j = 1 THEN NaN ELSE Num(data[j].Close - data[j - 1].Close)

\* delta.where(delta > 0, 0): the value is kept where the condition is True
GainAt(data, j) == IF FLt(Num(0), Delta(data, j)) THEN Delta(data, j) ELSE Num(0)

\* -delta.where(delta < 0, 0)
LossAt(data, j) == FNeg(IF FLt(Delta(data, j), Num(0)) THEN Delta(data, j) ELSE Num(0))

RECURSIVE SumGain(_, _, _)
SumGain(data, lo, hi) ==
    IF lo > hi THEN Num(0) ELSE FAdd(GainAt(data, hi), SumGain(data, lo, hi - 1))

RECURSIVE SumLoss(_, _, _)
SumLoss(data, lo, hi) ==
    IF lo > hi THEN Num(0) ELSE FAdd(LossAt(data, hi), SumLoss(data, lo, hi - 1))

\* X.rolling(window=14).mean().iloc[-1]: NaN with fewer than 14 observations
RollingGain(data) ==
    IF Len(data) < RSIWindow THEN NaN
    ELSE FDiv(SumGain(data, Len(data) - RSIWindow + 1, Len(data)), Num(RSIWindow))

RollingLoss(data) ==
    IF Len(data) < RSIWindow THEN NaN
    ELSE FDiv(SumLoss(data, Len(data) - RSIWindow + 1, Len(data)), Num(RSIWindow))

\* rs = gain / loss ; rsi = 100 - (100 / (1 + rs))
RawRSI(data) ==
    LET rs == FDiv(RollingGain(data), RollingLoss(data))
    IN  FSub(Num(100), FDiv(Num(100), FAdd(Num(1), rs)))

\* mutant: the NaN of an undefined ratio is passed on instead of replaced
CurrentRSI_NoFallback(data) == RawRSI(data)

\* current_rsi = rsi.iloc[-1] if not pd.isna(rsi.iloc[-1]) else 50
CurrentRSI(data) == IF ~IsNaN(RawRSI(data)) THEN RawRSI(data) ELSE Num(RSINeutral)

\* mutant: the first bar is the baseline whatever the length
ChangeBase_FirstBar(data) == data[1].Close

\* the baseline of change_pct
ChangeBase(data) ==
    IF Len(data) >= ChangeWindow THEN CloseFromEnd(data, ChangeWindow) ELSE data[1].Close

ChangePct(data) == PctOf(Num(CloseFromEnd(data, 1)), Num(ChangeBase(data)))

AvgVolume(data) == FDiv(Num(SumVolume(data, 1, Len(data))), Num(Len(data)))

RecentVolume(data) ==
    LET lo == IF Len(data) > RecentWindow THEN Len(data) - RecentWindow + 1 ELSE 1
    IN  FDiv(Num(SumVolume(data, lo, Len(data))), Num(Len(data) - lo + 1))

\* volume_trend = (recent_volume - avg_volume) / avg_volume * 100
\* (numpy float64 operands: a zero avg_volume gives NaN or inf, no exception)
VolumeTrend(data) == PctOf(RecentVolume(data), AvgVolume(data))

SMA(data, window) ==
    IF Len(data) >= window
    THEN FDiv(Num(SumClose(data, Len(data) - window + 1, Len(data))), Num(window))
    ELSE Num(CloseFromEnd(data, 1))

\* data['Returns'].std() is a finite number when at least two returns exist and
\* every one of them is finite (each close it divides by is non-zero).  Its
\* magnitude is a square root and is not computed here.
VolatilityFinite(data) ==
    /\ Len(data) >= 3
    /\ \A j \in 1..(Len(data) - 1) : data[j].Close # 0

\* the record calculate_metrics stores for one symbol
MetricRecord(data) ==
    LET current_price == Num(CloseFromEnd(data, 1))
        sma_20 == SMA(data, SMA20Window)
        sma_50 == SMA(data, SMA50Window)
    IN  [Current_Price |-> current_price,
         Change_Pct |-> ChangePct(data),
         Avg_Volume |-> AvgVolume(data),
         Recent_Volume |-> RecentVolume(data),
         Volume_Trend |-> VolumeTrend(data),
         Volatility_Finite |-> VolatilityFinite(data),
         SMA_20 |-> sma_20,
         SMA_50 |-> sma_50,
         RSI |-> CurrentRSI(data),
         Price_vs_SMA20 |-> PctOf(current_price, sma_20),
         Price_vs_SMA50 |-> PctOf(current_price, sma_50)]

\* if len(data) < 5: continue
EnoughBars(data) == Len(data) >= MinBars

\* calculate_metrics(stock_data): one record per symbol with enough bars, in
\* the iteration order of stock_data; nothing is printed
calculate_metrics(sd) ==
    LET kept == SelectSeq(sd, LAMBDA e : EnoughBars(e.data))
    IN  [j \in 1..Len(kept) |-> [symbol |-> kept[j].symbol, m |-> MetricRecord(kept[j].data)]]

----------------------------------------------------------------------------
(* predict_stocks *)

\* mutant: the cap is missing
VolumeScore_NoCap(m) == FDiv(m.Volume_Trend, Num(10))

\* volume_score = min(Volume_Trend / 10, 10)
VolumeScore(m) == PyMin(FDiv(m.Volume_Trend, Num(10)), Num(ScoreCap))

\* change_score = min(Change_Pct / 5, 10)
ChangeScore(m) == PyMin(FDiv(m.Change_Pct, Num(5)), Num(ScoreCap))

\* rsi_score = 10 - abs(RSI - 50) / 5 ; rsi_score = max(0, min(rsi_score, 10))
RSIScore(m) ==
    LET raw == FSub(Num(10), FDiv(FAbs(FSub(m.RSI, Num(50))), Num(5)))
    IN  PyMax(Num(0), PyMin(raw, Num(ScoreCap)))

\* sma_score = (Price_vs_SMA20 + Price_vs_SMA50) / 2 ; sma_score = min(sma_score / 2, 10)
SMAScore(m) ==
    LET avg == FDiv(FAdd(m.Price_vs_SMA20, m.Price_vs_SMA50), Num(2))
    IN  PyMin(FDiv(avg, Num(2)), Num(ScoreCap))

\* score = 0 ; score += volume_score * 0.3 ; += change_score * 0.25 ;
\* += rsi_score * 0.25 ; += sma_score * 0.2
TotalScore(m) ==
    LET s1 == FAdd(Num(0), FMul(VolumeScore(m), Flt(3, 10)))
        s2 == FAdd(s1, FMul(ChangeScore(m), Flt(1, 4)))
        s3 == FAdd(s2, FMul(RSIScore(m), Flt(1, 4)))
    IN  FAdd(s3, FMul(SMAScore(m), Flt(1, 5)))

\* the loop over df.index: the locals of each iteration, in iteration order
ScoreAll(mt) ==
    [j \in 1..Len(mt) |->
        [symbol |-> mt[j].symbol,
         volume_score |-> VolumeScore(mt[j].m),
         change_score |-> ChangeScore(mt[j].m),
         rsi_score |-> RSIScore(mt[j].m),
         sma_score |-> SMAScore(mt[j].m),
         score |-> TotalScore(mt[j].m)]]

\* scores.items()
ScoreItems(mt) ==
    [j \in 1..Len(mt) |-> [symbol |-> mt[j].symbol, score |-> TotalScore(mt[j].m)]]

(* sorted(items, key=lambda x: x[1], reverse=True), as CPython's list.sort  *)
(* computes it for fewer than 64 items: the list is reversed, the leading   *)
(* run is found (and reversed when strictly descending), the rest is        *)
(* inserted by binary insertion, and the list is reversed again.  Every     *)
(* comparison is key(a) < key(b).                                           *)

KeyLt(a, b) == FLt(a.score, b.score)

Reverse(s) == [j \in 1..Len(s) |-> s[Len(s) + 1 - j]]

\* count_run: the index of the last item of the run that starts at s[1],
\* given that s[1..j] is in it
RECURSIVE RunEnd(_, _, _)
RunEnd(s, j, descending) ==
    IF j = Len(s) THEN j
    ELSE IF descending
         THEN (IF KeyLt(s[j + 1], s[j]) THEN RunEnd(s, j + 1, descending) ELSE j)
         ELSE (IF KeyLt(s[j + 1], s[j]) THEN j ELSE RunEnd(s, j + 1, descending))

\* binarysort's search: the 0-based slot of pivot within s[l+1 .. r]
RECURSIVE BinPos(_, _, _, _)
BinPos(s, pivot, l, r) ==
    LET p == l + ((r - l) \div 2)
        l2 == IF KeyLt(pivot, s[p + 1]) THEN l ELSE p + 1
        r2 == IF KeyLt(pivot, s[p + 1]) THEN p ELSE r
    IN  IF l2 < r2 THEN BinPos(s, pivot, l2, r2) ELSE l2

\* binarysort: s[1 .. start-1] is sorted; insert s[start], s[start+1], ...
RECURSIVE BinarySort(_, _)
BinarySort(s, start) ==
    IF start > Len(s) THEN s
    ELSE LET pivot == s[start]
             l == BinPos(s, pivot, 0, start - 1)
             moved == [j \in 1..Len(s) |->
                          IF j <= l THEN s[j]
                          ELSE IF j = l + 1 THEN pivot
                          ELSE IF j <= start THEN s[j - 1]
                          ELSE s[j]]
         IN  BinarySort(moved, start + 1)

ListSort(s) ==
    IF Len(s) < 2 THEN s
    ELSE LET descending == KeyLt(s[2], s[1])
             n == RunEnd(s, 2, descending)
             run == IF descending
                    THEN [j \in 1..Len(s) |-> IF j <= n THEN s[n + 1 - j] ELSE s[j]]
                    ELSE s
         IN  BinarySort(run, n + 1)

SortedReverse(s) == Reverse(ListSort(Reverse(s)))

\* s[:k]
SliceTo(s, k) ==
    LET stop == IF k >= 0 THEN (IF k < Len(s) THEN k ELSE Len(s))
                ELSE (IF Len(s) + k > 0 THEN Len(s) + k ELSE 0)
    IN  SubSeq(s, 1, stop)

predict_stocks(mt, n) ==
    IF mt = <<>> THEN <<>> ELSE SliceTo(SortedReverse(ScoreItems(mt)), n)

----------------------------------------------------------------------------
(* stock_analysis.py: dates are day numbers; the weekday of day d is d % 7, *)
(* 0 = Monday ... 5 = Saturday, 6 = Sunday.                                 *)

Weekday(d) == d % 7
IsBusinessDay(d) == Weekday(d) < 5

\* BusinessDay.rollforward: the date itself when it is a business day
RollForward(d) == IF IsBusinessDay(d) THEN d ELSE d + (7 - Weekday(d))

\* mutant: calendar days instead of business days
NextBDay_Calendar(d) == d + 1

\* date + BusinessDay(1)
NextBDay(d) ==
    IF Weekday(d) = 4 THEN d + 3
    ELSE IF Weekday(d) = 5 THEN d + 2
    ELSE d + 1

RECURSIVE BRange(_, _)
BRange(cur, periods) ==
    IF periods = 0 THEN <<>> ELSE <<cur>> \o BRange(NextBDay(cur), periods - 1)

\* pd.date_range(data.index[-1] + pd.Timedelta(days=1), periods=7, freq='B')
ForecastDates(last) == BRange(RollForward(last + 1), Horizon)

\* fit.forecast(7): level + h * trend for h = 1..7, the fitted level and trend
\* being whatever the optimiser returned
HoltForecast(level, trend) == [h \in 1..Horizon |-> level + h * trend]

----------------------------------------------------------------------------
(* Inputs *)

\* get_indonesia_stocks(): the keys of the dict, in insertion order
Universe ==
    <<"BBCA.JK", "BBRI.JK", "BMRI.JK", "ASII.JK", "TLKM.JK", "ICBP.JK", "UNVR.JK",
      "PGAS.JK", "KLBF.JK", "INDF.JK", "SMGR.JK", "ANTM.JK", "PTBA.JK", "INTP.JK",
      "JSMR.JK", "WIKA.JK", "ADRO.JK", "BBNI.JK", "BRIS.JK", "GOTO.JK">>

\* the symbols main analyses in the model: a prefix of the universe
Symbols == SubSeq(Universe, 1, MaxSymbols)

(* Price series: positive closes of four shapes, optionally with one bar    *)
(* raised by BumpBy, `back` bars before the last one (NoBump: no bar is).   *)
CloseShapes == {"flat", "up", "down", "zigzag"}
VolumeShapes == {"zero", "const", "rising", "spike", "dry"}
NoBump == MaxBars + 1
BumpBacks == {NoBump, 0, 1, 13, 14, 15, 28, 29, 30}
BumpBy == 5

CloseOf(shape, n, j, back) ==
    LET base == CASE shape = "flat" -> 10
                  [] shape = "up" -> j
                  [] shape = "down" -> n + 1 - j
                  [] OTHER -> IF j % 2 = 1 THEN 10 ELSE 12
    IN  IF j = n - back THEN base + BumpBy ELSE base

VolumeOf(shape, n, j) ==
    CASE shape = "zero" -> 0
      [] shape = "const" -> 1000
      [] shape = "rising" -> 10 * j
      [] shape = "spike" -> IF j = n THEN 5000 ELSE 0
      [] OTHER -> IF j > n - 5 THEN 0 ELSE 1000

Series(cshape, vshape, n, back) ==
    [j \in 1..n |-> [Close |-> CloseOf(cshape, n, j, back), Volume |-> VolumeOf(vshape, n, j)]]

\* the non-empty histories a fetch of main returns in the model
HistPool ==
    {Series("up", "rising", 3, NoBump),
     Series("zigzag", "const", 4, NoBump),
     Series("up", "rising", 6, NoBump),
     Series("down", "dry", 7, 1),
     Series("flat", "zero", 6, NoBump)}

\* a metric record with given values of the five fields predict_stocks reads
ScoredRecord(vt, cp, rsi, p20, p50) ==
    [Current_Price |-> Num(100), Change_Pct |-> cp, Avg_Volume |-> Num(1000),
     Recent_Volume |-> Num(1000), Volume_Trend |-> vt, Volatility_Finite |-> TRUE,
     SMA_20 |-> Num(100), SMA_50 |-> Num(100), RSI |-> rsi,
     Price_vs_SMA20 |-> p20, Price_vs_SMA50 |-> p50]

\* metric records drawn for predict_stocks: capped and uncapped, negative,
\* equal-scoring, and the record of a symbol that never traded (Volume_Trend NaN)
MetricPool ==
    {ScoredRecord(Num(1000), Num(100), Num(100), Num(60), Num(80)),
     ScoredRecord(Num(100), Num(50), Num(50), Num(20), Num(20)),
     ScoredRecord(Num(-500), Num(-50), Num(0), Num(-30), Num(-10)),
     ScoredRecord(Num(0), Num(0), Num(50), Num(0), Num(0)),
     ScoredRecord(Num(0), Num(10), Num(60), Num(0), Num(0)),
     ScoredRecord(Num(50), Flt(-5, 2), Num(45), Num(3), Num(-1)),
     ScoredRecord(NaN, Num(0), Num(50), Num(0), Num(0))}

\* three records, two of them finite with different scores, for the sort
RankPool ==
    {ScoredRecord(Num(0), Num(0), Num(50), Num(0), Num(0)),
     ScoredRecord(Num(100), Num(50), Num(50), Num(20), Num(20)),
     ScoredRecord(NaN, Num(0), Num(50), Num(0), Num(0))}

\* the metrics mappings of at most `most` symbols with records from `pool`
Mappings(pool, most) ==
    UNION {{[j \in 1..k |-> [symbol |-> Universe[j], m |-> f[j]]] : f \in [1..k -> pool]}
           : k \in 0..most}

----------------------------------------------------------------------------
(* States and actions *)

Idle ==
    /\ i = 0 /\ stock_data = <<>> /\ metrics = <<>> /\ top_n = DefaultTopN
    /\ scores = <<>> /\ predictions = <<>> /\ output = <<>> /\ plotted = FALSE

NoForecast ==
    /\ hist_len = 0 /\ hist_last = 0 /\ forecast = <<>> /\ future_dates = <<>>

Msg(kind, symbol) == [kind |-> kind, symbol |-> symbol]

(* calculate_metrics called on one symbol's DataFrame *)

InitMetrics ==
    /\ pc = "calculate_metrics"
    /\ \E cs \in CloseShapes, vs \in VolumeShapes, n \in 1..MaxBars, back \in BumpBacks :
          stock_data = <<[symbol |-> Universe[1], data |-> Series(cs, vs, n, back)]>>
    /\ i = 0 /\ metrics = <<>> /\ top_n = DefaultTopN
    /\ scores = <<>> /\ predictions = <<>> /\ output = <<>> /\ plotted = FALSE
    /\ NoForecast

MetricsCall ==
    /\ pc = "calculate_metrics"
    /\ metrics' = calculate_metrics(stock_data)
    /\ pc' = "metrics_returned"
    /\ UNCHANGED <<i, stock_data, top_n, scores, predictions, output, plotted>>
    /\ UNCHANGED forecastVars

SpecMetrics == InitMetrics /\ [][MetricsCall]_vars

(* predict_stocks called on a metrics mapping *)

InitScore ==
    /\ pc = "predict_stocks"
    /\ metrics \in Mappings(MetricPool, MaxScored)
    /\ top_n \in 0..MaxTopN
    /\ i = 0 /\ stock_data = <<>>
    /\ scores = <<>> /\ predictions = <<>> /\ output = <<>> /\ plotted = FALSE
    /\ NoForecast

InitRank ==
    /\ pc = "predict_stocks"
    /\ metrics \in Mappings(RankPool, MaxRanked)
    /\ top_n = DefaultTopN
    /\ i = 0 /\ stock_data = <<>>
    /\ scores = <<>> /\ predictions = <<>> /\ output = <<>> /\ plotted = FALSE
    /\ NoForecast

PredictCall ==
    /\ pc = "predict_stocks"
    /\ scores' = ScoreAll(metrics)
    /\ predictions' = predict_stocks(metrics, top_n)
    /\ pc' = "predict_returned"
    /\ UNCHANGED <<i, stock_data, metrics, top_n, output, plotted>>
    /\ UNCHANGED forecastVars

SpecScore == InitScore /\ [][PredictCall]_vars

SpecRank == InitRank /\ [][PredictCall]_vars

(* main of indonesia_stock_analysis.py *)

InitMain ==
    /\ pc = "fetch"
    /\ i = 1 /\ stock_data = <<>> /\ metrics = <<>> /\ top_n = DefaultTopN
    /\ scores = <<>> /\ predictions = <<>> /\ output = <<>> /\ plotted = FALSE
    /\ NoForecast

\* fetch_stock_data, one iteration: history() returned a non-empty frame
FetchOk ==
    /\ pc = "fetch" /\ i <= Len(Symbols)
    /\ \E hist \in HistPool :
          stock_data' = Append(stock_data, [symbol |-> Symbols[i], data |-> hist])
    /\ output' = Append(output, Msg("fetched", Symbols[i]))
    /\ i' = i + 1
    /\ UNCHANGED <<pc, metrics, top_n, scores, predictions, plotted>>
    /\ UNCHANGED forecastVars

\* mutant: the empty frame is stored like any other
FetchEmpty_Stored ==
    /\ pc = "fetch" /\ i <= Len(Symbols)
    /\ stock_data' = Append(stock_data, [symbol |-> Symbols[i], data |-> <<>>])
    /\ output' = Append(output, Msg("no_data", Symbols[i]))
    /\ i' = i + 1
    /\ UNCHANGED <<pc, metrics, top_n, scores, predictions, plotted>>
    /\ UNCHANGED forecastVars

\* one iteration: history() returned an empty frame
FetchEmpty ==
    /\ pc = "fetch" /\ i <= Len(Symbols)
    /\ output' = Append(output, Msg("no_data", Symbols[i]))
    /\ i' = i + 1
    /\ UNCHANGED <<pc, stock_data, metrics, top_n, scores, predictions, plotted>>
    /\ UNCHANGED forecastVars

\* one iteration: Ticker() or history() raised, caught by except Exception
FetchError ==
    /\ pc = "fetch" /\ i <= Len(Symbols)
    /\ output' = Append(output, Msg("fetch_error", Symbols[i]))
    /\ i' = i + 1
    /\ UNCHANGED <<pc, stock_data, metrics, top_n, scores, predictions, plotted>>
    /\ UNCHANGED forecastVars

\* fetch_stock_data returned ; if not stock_data: print ; return
MainNoData ==
    /\ pc = "fetch" /\ i > Len(Symbols)
    /\ stock_data = <<>>
    /\ output' = Append(output, Msg("no_stock_data", ""))
    /\ pc' = "done"
    /\ UNCHANGED <<i, stock_data, metrics, top_n, scores, predictions, plotted>>
    /\ UNCHANGED forecastVars

MainFetched ==
    /\ pc = "fetch" /\ i > Len(Symbols)
    /\ stock_data # <<>>
    /\ output' = Append(output, Msg("fetched_count", ""))
    /\ pc' = "metrics"
    /\ UNCHANGED <<i, stock_data, metrics, top_n, scores, predictions, plotted>>
    /\ UNCHANGED forecastVars

\* mutant: the return after the message is missing
MainNoMetrics_NoReturn ==
    /\ pc = "metrics"
    /\ calculate_metrics(stock_data) = <<>>
    /\ metrics' = calculate_metrics(stock_data)
    /\ output' = Append(output, Msg("no_metrics", ""))
    /\ pc' = "predict"
    /\ UNCHANGED <<i, stock_data, top_n, scores, predictions, plotted>>
    /\ UNCHANGED forecastVars

\* metrics = calculate_metrics(stock_data) ; if not metrics: print ; return
MainNoMetrics ==
    /\ pc = "metrics"
    /\ calculate_metrics(stock_data) = <<>>
    /\ metrics' = calculate_metrics(stock_data)
    /\ output' = Append(output, Msg("no_metrics", ""))
    /\ pc' = "done"
    /\ UNCHANGED <<i, stock_data, top_n, scores, predictions, plotted>>
    /\ UNCHANGED forecastVars

\* metrics is not empty: the table sorted by change is printed
MainMetrics ==
    /\ pc = "metrics"
    /\ calculate_metrics(stock_data) # <<>>
    /\ metrics' = calculate_metrics(stock_data)
    /\ output' = Append(output, Msg("change_table", ""))
    /\ pc' = "predict"
    /\ UNCHANGED <<i, stock_data, top_n, scores, predictions, plotted>>
    /\ UNCHANGED forecastVars

\* predictions = predict_stocks(metrics, top_n=5), then the two reports
MainPredict ==
    /\ pc = "predict"
    /\ scores' = ScoreAll(metrics)
    /\ predictions' = predict_stocks(metrics, DefaultTopN)
    /\ output' = Append(output, Msg("predictions", ""))
    /\ pc' = "plot"
    /\ UNCHANGED <<i, stock_data, metrics, top_n, plotted>>
    /\ UNCHANGED forecastVars

\* create_analysis_plots(stock_data, metrics, predictions), then the closing lines
MainPlot ==
    /\ pc = "plot"
    /\ plotted' = TRUE
    /\ output' = Append(output, Msg("complete", ""))
    /\ pc' = "done"
    /\ UNCHANGED <<i, stock_data, metrics, top_n, scores, predictions>>
    /\ UNCHANGED forecastVars

NextMain ==
    \/ FetchOk \/ FetchEmpty \/ FetchError
    \/ MainNoData \/ MainFetched
    \/ MainNoMetrics \/ MainMetrics
    \/ MainPredict \/ MainPlot

SpecMain == InitMain /\ [][NextMain]_vars

(* stock_analysis.py *)

InitForecast ==
    /\ pc = "download"
    /\ Idle
    /\ NoForecast

\* yf.download returned rows, the last one dated hist_last
Download ==
    /\ pc = "download"
    /\ \E n \in 1..MaxHist, last \in 0..MaxDay :
          /\ last >= n - 1
          /\ hist_len' = n
          /\ hist_last' = last
    /\ pc' = "plot_history"
    /\ UNCHANGED <<forecast, future_dates>>
    /\ UNCHANGED <<i, stock_data, metrics, top_n, scores, predictions, output, plotted>>

\* if data.empty: raise ValueError
DownloadEmpty ==
    /\ pc = "download"
    /\ pc' = "raised"
    /\ output' = Append(output, Msg("ValueError", ""))
    /\ UNCHANGED forecastVars
    /\ UNCHANGED <<i, stock_data, metrics, top_n, scores, predictions, plotted>>

PlotHistory ==
    /\ pc = "plot_history"
    /\ pc' = "fit"
    /\ UNCHANGED forecastVars
    /\ UNCHANGED <<i, stock_data, metrics, top_n, scores, predictions, output, plotted>>

\* model.fit() ; forecast = fit.forecast(7)
FitForecast ==
    /\ pc = "fit"
    /\ hist_len >= 2
    /\ \E level \in {100, 250}, trend \in {-3, 0, 2} :
          forecast' = HoltForecast(level, trend)
    /\ pc' = "plot_forecast"
    /\ UNCHANGED <<hist_len, hist_last, future_dates>>
    /\ UNCHANGED <<i, stock_data, metrics, top_n, scores, predictions, output, plotted>>

\* the library refuses a history too short to initialise level and trend
FitRaises ==
    /\ pc = "fit"
    /\ hist_len < 10
    /\ pc' = "raised"
    /\ output' = Append(output, Msg("fit_error", ""))
    /\ UNCHANGED forecastVars
    /\ UNCHANGED <<i, stock_data, metrics, top_n, scores, predictions, plotted>>

\* plt.plot(pd.date_range(...), forecast, ...)
PlotForecast ==
    /\ pc = "plot_forecast"
    /\ future_dates' = ForecastDates(hist_last)
    /\ pc' = "done"
    /\ UNCHANGED <<hist_len, hist_last, forecast>>
    /\ UNCHANGED <<i, stock_data, metrics, top_n, scores, predictions, output, plotted>>

NextForecast ==
    \/ Download \/ DownloadEmpty \/ PlotHistory
    \/ FitForecast \/ FitRaises \/ PlotForecast

SpecForecast == InitForecast /\ [][NextForecast]_vars

----------------------------------------------------------------------------
(* Properties *)

InData(s) == \E k \in 1..Len(stock_data) : stock_data[k].symbol = s
InMetrics(s) == \E k \in 1..Len(metrics) : metrics[k].symbol = s
InRanking(s) == \E k \in 1..Len(predictions) : predictions[k].symbol = s
Printed(kind, s) == \E k \in 1..Len(output) : output[k] = Msg(kind, s)

FetchFailed(s) == Printed("no_data", s) \/ Printed("fetch_error", s)
FetchSucceeded(s) == Printed("fetched", s)
PredictInvoked == Printed("predictions", "")

\* C1: per-symbol fetch failures are isolated.  Every iteration of the loop of
\* fetch_stock_data ends in one of its three prints and moves on to the next
\* symbol (nothing is raised); a symbol whose fetch raised or returned an empty
\* frame is in none of data, metrics and ranking; a symbol whose fetch returned
\* a non-empty frame is in data, wherever the failing symbols are in the order.
C1_FetchIsolation ==
    pc \in {"fetch", "metrics", "predict", "plot", "done"} =>
        /\ Len(output) >= i - 1
        /\ \A k \in 1..Len(Symbols) :
              /\ k < i => (FetchFailed(Symbols[k]) # FetchSucceeded(Symbols[k]))
              /\ FetchFailed(Symbols[k]) =>
                    /\ ~InData(Symbols[k])
                    /\ ~InMetrics(Symbols[k])
                    /\ ~InRanking(Symbols[k])
              /\ FetchSucceeded(Symbols[k]) => InData(Symbols[k])
        /\ (pc # "fetch") => (i = Len(Symbols) + 1)

\* the run is over, a failed symbol came before and after a fetched one, and
\* the fetched one was ranked
C1_Witness ==
    /\ pc = "done" /\ plotted
    /\ FetchFailed(Symbols[1])
    /\ FetchSucceeded(Symbols[2]) /\ InRanking(Symbols[2])
    /\ FetchFailed(Symbols[3])

AllDropped == \A k \in 1..Len(stock_data) : Len(stock_data[k].data) < 5

\* C2: when every symbol is dropped the run ends with a message to the user and
\* neither predict_stocks nor create_analysis_plots is invoked; scoring and
\* plotting happen only once a non-empty metrics mapping exists.
C2_AbortBeforeScoring ==
    /\ (pc # "fetch" /\ AllDropped) =>
          /\ pc \in {"metrics", "done"}
          /\ ~PredictInvoked /\ ~plotted /\ scores = <<>> /\ predictions = <<>>
          /\ pc = "done" =>
                (output[Len(output)] \in {Msg("no_stock_data", ""), Msg("no_metrics", "")})
    /\ (PredictInvoked \/ plotted \/ pc \in {"predict", "plot"}) =>
          (metrics # <<>> /\ ~AllDropped)

\* fetches succeeded, yet every frame was too short, and the run has ended
C2_Witness ==
    /\ pc = "done"
    /\ stock_data # <<>>
    /\ AllDropped
    /\ Printed("no_metrics", "")

PositionIn(seq, s) == CHOOSE k \in 1..Len(seq) : seq[k].symbol = s

\* C3: predict_stocks returns exactly min(top_n, k) pairs, no pair is followed by
\* a pair of strictly greater score, and no symbol left out has a score strictly
\* greater than one of the result.
C3_TopNHighest ==
    pc = "predict_returned" =>
        /\ Len(predictions) = (IF top_n < Len(metrics) THEN top_n ELSE Len(metrics))
        /\ \A p, q \in 1..Len(predictions) :
              p < q => ~FLt(predictions[p].score, predictions[q].score)
        /\ \A k \in 1..Len(scores), p \in 1..Len(predictions) :
              ~InRanking(scores[k].symbol) => ~FLt(predictions[p].score, scores[k].score)

PositiveCloses(data) == \A j \in 1..Len(data) : data[j].Close > 0
NonNegativeVolumes(data) == \A j \in 1..Len(data) : data[j].Volume >= 0

DataOf(s) == stock_data[PositionIn(stock_data, s)].data

\* C4: every field of every record computed from a series of at least 5 bars
\* with positive closes and non-negative volumes is a finite number.
C4_FieldsFinite ==
    \A k \in 1..Len(metrics) :
        (PositiveCloses(DataOf(metrics[k].symbol)) /\ NonNegativeVolumes(DataOf(metrics[k].symbol))) =>
            LET m == metrics[k].m
            IN  /\ IsFinite(m.Current_Price) /\ IsFinite(m.Change_Pct)
                /\ IsFinite(m.Avg_Volume) /\ IsFinite(m.Recent_Volume)
                /\ IsFinite(m.Volume_Trend) /\ m.Volatility_Finite
                /\ IsFinite(m.SMA_20) /\ IsFinite(m.SMA_50) /\ IsFinite(m.RSI)
                /\ IsFinite(m.Price_vs_SMA20) /\ IsFinite(m.Price_vs_SMA50)

\* the sums of the rises and of the falls of the close over the last 14 rows
\* (the first row of a frame has no predecessor and counts as no move)
RECURSIVE WindowRise(_, _, _)
WindowRise(data, lo, hi) ==
    IF lo > hi THEN 0
    ELSE (IF hi >= 2 /\ data[hi].Close > data[hi - 1].Close
          THEN data[hi].Close - data[hi - 1].Close ELSE 0) + WindowRise(data, lo, hi - 1)

RECURSIVE WindowFall(_, _, _)
WindowFall(data, lo, hi) ==
    IF lo > hi THEN 0
    ELSE (IF hi >= 2 /\ data[hi].Close < data[hi - 1].Close
          THEN data[hi - 1].Close - data[hi].Close ELSE 0) + WindowFall(data, lo, hi - 1)

Rise14(data) == WindowRise(data, Len(data) - 13, Len(data))
Fall14(data) == WindowFall(data, Len(data) - 13, Len(data))

InRange0To100(x) == IsFinite(x) /\ 0 <= x.n /\ x.n <= 100 * x.d

\* C5 as stated: rsi is in [0, 100], and it is exactly 50 whenever there are
\* fewer than 14 rows or the average loss over the window is zero (a window
\* with gains only included).
C5_NeutralWheneverLossZero ==
    \A k \in 1..Len(metrics) :
        LET data == DataOf(metrics[k].symbol)
            rsi == metrics[k].m.RSI
        IN  /\ InRange0To100(rsi)
            /\ (Len(data) < 14 \/ Fall14(data) = 0) => rsi = Num(50)

\* C5 as amended: rsi is in [0, 100]; it is exactly 50 with fewer than 14 rows
\* and when neither a rise nor a fall lies in the window (0/0); it is exactly
\* 100 when the window holds rises and no fall (the ratio is infinite); and it
\* is 100 * rise / (rise + fall) otherwise.
C5_NeutralOnlyWhenUndefined ==
    \A k \in 1..Len(metrics) :
        LET data == DataOf(metrics[k].symbol)
            rsi == metrics[k].m.RSI
        IN  /\ InRange0To100(rsi)
            /\ Len(data) < 14 => rsi = Num(50)
            /\ (Len(data) >= 14 /\ Fall14(data) = 0 /\ Rise14(data) = 0) => rsi = Num(50)
            /\ (Len(data) >= 14 /\ Fall14(data) = 0 /\ Rise14(data) > 0) => rsi = Num(100)
            /\ (Len(data) >= 14 /\ Fall14(data) > 0) =>
                  rsi.n * (Rise14(data) + Fall14(data)) = 100 * Rise14(data) * rsi.d

\* a record was computed from a window of 14 rows with rises and no fall,
\* and its rsi is 100
C5_Witness ==
    /\ pc = "metrics_returned"
    /\ \E k \in 1..Len(metrics) :
          LET data == DataOf(metrics[k].symbol)
          IN  /\ Len(data) >= 14 /\ Fall14(data) = 0 /\ Rise14(data) > 0
              /\ metrics[k].m.RSI = Num(100)

\* C6: no sub-score exceeds 10; the RSI sub-score is never below 0; the volume,
\* momentum and trend sub-scores have no floor (below the cap they are the
\* scaled metric itself, however negative); Volume_Trend = 1000 scores 10.
UncappedOrTen(sub, x, scale) ==
    IF IsFinite(x) /\ x.n <= 10 * scale * x.d
    THEN sub.n * scale * x.d = x.n * sub.d /\ IsFinite(sub)
    ELSE IF IsFinite(x) THEN sub = Num(10)
    ELSE TRUE

C6_SubScoreBounds ==
    \A k \in 1..Len(scores) :
        LET m == metrics[k].m
            sc == scores[k]
        IN  /\ ~FLt(Num(10), sc.volume_score) /\ ~FLt(Num(10), sc.change_score)
            /\ ~FLt(Num(10), sc.rsi_score) /\ ~FLt(Num(10), sc.sma_score)
            /\ IsFinite(sc.rsi_score) /\ sc.rsi_score.n >= 0
            /\ UncappedOrTen(sc.volume_score, m.Volume_Trend, 10)
            /\ UncappedOrTen(sc.change_score, m.Change_Pct, 5)
            /\ UncappedOrTen(sc.sma_score, FAdd(m.Price_vs_SMA20, m.Price_vs_SMA50), 4)
            /\ m.Volume_Trend = Num(1000) => sc.volume_score = Num(10)

\* one symbol with Volume_Trend = 1000 scored 10, another scored below zero on
\* volume, momentum and trend
C6_Witness ==
    /\ pc = "predict_returned"
    /\ \E a, b \in 1..Len(scores) :
          /\ metrics[a].m.Volume_Trend = Num(1000) /\ scores[a].volume_score = Num(10)
          /\ FLt(scores[b].volume_score, Num(0))
          /\ FLt(scores[b].change_score, Num(0))
          /\ FLt(scores[b].sma_score, Num(0))

\* C7: with at least 30 bars change_pct is measured from the 30th bar counted
\* from the end, with 5 to 29 bars from the first bar; at 30 bars both are the
\* same bar.
C7_ChangeBaseline ==
    \A k \in 1..Len(metrics) :
        LET data == DataOf(metrics[k].symbol)
            n == Len(data)
            cp == metrics[k].m.Change_Pct
        IN  /\ n >= 30 =>
                  cp.n * data[n - 29].Close = (data[n].Close - data[n - 29].Close) * 100 * cp.d
            /\ (n >= 5 /\ n <= 29) =>
                  cp.n * data[1].Close = (data[n].Close - data[1].Close) * 100 * cp.d
            /\ n = 30 => n - 29 = 1
            /\ IsFinite(cp)

\* a record was computed from more than 30 bars whose first bar and 30th bar
\* from the end give different percentages
C7_Witness ==
    /\ pc = "metrics_returned"
    /\ \E k \in 1..Len(metrics) :
          LET data == DataOf(metrics[k].symbol)
          IN  /\ Len(data) > 30
              /\ data[1].Close # data[Len(data) - 29].Close
              /\ data[Len(data)].Close # data[1].Close

\* C8 as stated: a symbol has a record iff its frame has at least 5 bars; a
\* symbol with fewer has no record and no ranking entry, is reported as
\* insufficient data (by a line of its own or by the run's closing message),
\* and the others are still processed.
C8_ShortSeriesReported ==
    pc \in {"predict", "plot", "done"} /\ stock_data # <<>> =>
        \A k \in 1..Len(stock_data) :
            LET s == stock_data[k].symbol
            IN  /\ InMetrics(s) <=> Len(stock_data[k].data) >= 5
                /\ Len(stock_data[k].data) < 5 =>
                      /\ ~InRanking(s)
                      /\ Printed("insufficient_data", s) \/ Printed("no_metrics", "")

\* C9: the forecast has 7 values plotted on 7 dates that increase strictly, lie
\* after the last historical date, are no Saturday or Sunday, and leave out no
\* weekday between the last historical date and the last forecast date.
C9_SevenBusinessDays ==
    pc = "done" /\ hist_len > 0 =>
        /\ Len(forecast) = 7 /\ Len(future_dates) = 7
        /\ \A k \in 1..6 : future_dates[k] < future_dates[k + 1]
        /\ \A k \in 1..7 :
              /\ future_dates[k] > hist_last
              /\ future_dates[k] % 7 # 5 /\ future_dates[k] % 7 # 6
        /\ \A d \in (hist_last + 1)..future_dates[7] :
              (d % 7 # 5 /\ d % 7 # 6) => \E k \in 1..7 : future_dates[k] = d

\* the history ended on a Friday and the forecast starts on the Monday after
C9_Witness ==
    /\ pc = "done" /\ hist_len > 0
    /\ hist_last % 7 = 4
    /\ future_dates[1] = hist_last + 3
    /\ future_dates[7] = hist_last + 11

\* C10: symbols of equal score keep the order of the metrics mapping in the
\* result, also across the top-N cut.
C10_StableRanking ==
    pc = "predict_returned" =>
        \A a, b \in 1..Len(scores) :
            (a < b /\ IsFinite(scores[a].score) /\ scores[a].score = scores[b].score) =>
                /\ InRanking(scores[b].symbol) => InRanking(scores[a].symbol)
                /\ (InRanking(scores[a].symbol) /\ InRanking(scores[b].symbol)) =>
                      PositionIn(predictions, scores[a].symbol)
                          < PositionIn(predictions, scores[b].symbol)

============================================================================
